---- MODULE Spec2Model ----
(***************************************************************************)
(* Reed-Solomon erasure coding over GF(2^8) and the erasure-coded block    *)
(* device built on it (pkg/reedsolomon, pkg/controller).                   *)
(*                                                                         *)
(* Matrices and vectors are functions over 0..len-1, as the Go slices are. *)
(* Byte buffers and slice lists are sequences: Go's buf[i] is buf[i + 1].  *)
(* A Go (value, error) result is a record [err, val] with err = "nil" on   *)
(* success.                                                                *)
(***************************************************************************)
EXTENDS Integers, Sequences, FiniteSets, TLC

(***************************************************************************)
(* Bounds of the model.                                                    *)
(***************************************************************************)
\* largest number of data slices n of a code the codec specifications build
MaxN == 3
\* largest number of parity slices k of a code the codec specifications build
MaxK == 2
\* largest number of stripes of an aligned buffer given to the codec
MaxStripes == 2
\* largest dimension of a matrix given to mtx_inv
MaxDim == 3
\* largest byte offset of a device request
MaxOff == 2
\* largest buffer length of a device request to a range the claims are about
MaxLen == 3

\* number of stripes, from stripe 0 on, that two calls at the same time write to
MaxConcStripes == 2

(***************************************************************************)
(* The Galois field GF(2^m), galois.go.                                    *)
(***************************************************************************)
\* const M = poly(8)
M == 8
\* const P = poly(357)
P == 357

\* x ^ y of Go on one bit position after the other
RECURSIVE XorBits(_, _)
XorBits(x, y) ==
    IF x = 0 THEN y
    ELSE IF y = 0 THEN x
    ELSE ((x + y) % 2) + 2 * XorBits(x \div 2, y \div 2)

\* x ^ y for two bytes, tabulated once
XorByte == [x \in 0..255 |-> [y \in 0..255 |-> XorBits(x, y)]]

\* x ^ y for values below 2^16 (a product before reduction has at most 15 bits)
Xor(x, y) ==
    XorByte[x % 256][y % 256] + 256 * XorByte[x \div 256][y \div 256]

\* g.size(): 1 << g.m
size == 2 ^ M

\* g.add(x, y)
add(x, y) == Xor(x, y)

\* first loop of g.mul: for i < m, if the lowest bit of v1 is set, prd ^= v2 << i;
\* v1 >>= 1, stop when v1 is 0. v2sh is v2 << i.
RECURSIVE mulShiftAdd(_, _, _, _)
mulShiftAdd(v1, v2sh, i, prd) ==
    IF i >= M THEN prd
    ELSE LET prd2 == IF v1 % 2 # 0 THEN Xor(prd, v2sh) ELSE prd
             v1s == v1 \div 2
         IN IF v1s = 0 THEN prd2 ELSE mulShiftAdd(v1s, 2 * v2sh, i + 1, prd2)

\* second loop of g.mul: for i = m-2 down to 0, if prd & mask then clear that
\* bit and prd ^= pol << i; mask >>= 1. mask is 1 << (m + i), polsh is pol << i.
RECURSIVE mulReduce(_, _, _, _)
mulReduce(prd, mask, polsh, i) ==
    IF i < 0 THEN prd
    ELSE LET prd2 == IF (prd \div mask) % 2 # 0
                     THEN Xor(prd - mask, polsh)
                     ELSE prd
         IN mulReduce(prd2, mask \div 2, polsh \div 2, i - 1)

\* g.mul(x, y) as the code computes it
mulPoly(x, y) ==
    LET pol == Xor(P, 2 ^ M)
    IN mulReduce(mulShiftAdd(x, y, 0, 0), 2 ^ (M + (M - 2)), pol * 2 ^ (M - 2), M - 2)

\* the products of all pairs of field elements, computed once by mulPoly
MulTab == [x \in 0..(size - 1) |-> [y \in 0..(size - 1) |-> mulPoly(x, y)]]

\* g.mul(x, y)
mul(x, y) == MulTab[x][y]

\* the search of g.inv for every non-zero x: the first i in 1..size-1 with
\* x * i = 1, or 1 when there is none
InvTab ==
    [x \in 1..(size - 1) |->
        LET S == {i \in 1..(size - 1) : mul(x, i) = 1}
        IN IF S = {} THEN 1 ELSE CHOOSE i \in S : \A j \in S : i <= j]

\* g.inv(x)
inv(x) ==
    IF x = 0 THEN [err |-> "ErrZeroDivision", val |-> 0]
    ELSE [err |-> "nil", val |-> InvTab[x]]

\* g.div after "yinv, err := g.inv(y)"
divBy(x, yinv) ==
    IF yinv.err # "nil" THEN [err |-> yinv.err, val |-> 0]
    ELSE [err |-> "nil", val |-> mul(x, yinv.val)]

\* g.div(x, y)
div(x, y) == divBy(x, inv(y))

\* g.pow(b, e): e multiplications starting from 1
RECURSIVE pow(_, _)
pow(b, e) == IF e = 0 THEN 1 ELSE mul(pow(b, e - 1), b)

\* the value v with all of its entries computed: a function is otherwise
\* recomputed entry by entry whenever it is applied
Eager(v) == IF v = v THEN v ELSE v

\* number of entries of a vector or rows of a matrix (Go's len)
len(v) == Cardinality(DOMAIN v)

RECURSIVE dotLoop(_, _, _)
dotLoop(v1, v2, i) ==
    IF i = 0 THEN 0
    ELSE add(dotLoop(v1, v2, i - 1), mul(v1[i - 1], v2[i - 1]))

\* g.vec_vec_dot(v1, v2)
vec_vec_dot(v1, v2) ==
    IF len(v1) # len(v2) THEN [err |-> "ErrDimensionMismatch", val |-> 0]
    ELSE [err |-> "nil", val |-> dotLoop(v1, v2, len(v1))]

\* g.mtx_vec_dot with the results r of vec_vec_dot for its rows: the first
\* row whose product fails decides the error
rowProducts(r) ==
    IF \E i \in DOMAIN r : r[i].err # "nil"
    THEN [err |-> "ErrDimensionMismatch", val |-> << >>]
    ELSE [err |-> "nil", val |-> [i \in DOMAIN r |-> r[i].val]]

\* g.mtx_vec_dot(A, v)
mtx_vec_dot(A, v) == rowProducts(Eager([i \in DOMAIN A |-> vec_vec_dot(A[i], v)]))

(***************************************************************************)
(* The matrix kernel, galois.go.                                           *)
(***************************************************************************)
\* g.mtx_identity(n)
mtx_identity(n) ==
    IF n <= 0 THEN [err |-> "ErrDimensionMismatch", val |-> << >>]
    ELSE [err |-> "nil",
          val |-> [i \in 0..(n - 1) |-> [j \in 0..(n - 1) |-> IF i = j THEN 1 ELSE 0]]]

\* mtx_vandermonde with base and exponent of pow exchanged: entry [i][j] is
\* j^i instead of i^j (a fault the generator-matrix claim C9 has to detect)
mtx_vandermonde_exchanged(n, k) ==
    IF n + k > size THEN [err |-> "ErrInsufficientFieldSize", val |-> << >>]
    ELSE [err |-> "nil",
          val |-> [i \in 0..(n + k - 1) |-> [j \in 0..(n - 1) |-> pow(j, i)]]]

\* g.mtx_vandermonde(n, k)
mtx_vandermonde(n, k) ==
    IF n + k > size THEN [err |-> "ErrInsufficientFieldSize", val |-> << >>]
    ELSE [err |-> "nil",
          val |-> [i \in 0..(n + k - 1) |-> [j \in 0..(n - 1) |-> pow(i, j)]]]

\* round i of g.mtx_xform_vandermonde, first inner loop: row i of mtx divided
\* by its diagonal element d # 0
xformScale(mtx, n, rows, i) ==
    [l \in 0..(rows - 1) |->
        [j \in 0..(n - 1) |->
            IF l = i THEN div(mtx[i][j], mtx[i][i]).val ELSE mtx[l][j]]]

\* round i of g.mtx_xform_vandermonde, second inner loop: for every column
\* j # i add s * column i to column j in all rows, s = scaled[i][j]
xformColumns(scaled, n, rows, i) ==
    [l \in 0..(rows - 1) |->
        [j \in 0..(n - 1) |->
            IF j = i THEN scaled[l][j]
            ELSE add(mul(scaled[i][j], scaled[l][i]), scaled[l][j])]]

\* one round i of g.mtx_xform_vandermonde on matrix mtx with n columns and
\* rows rows; the division by a diagonal element 0 fails
xformRound(mtx, n, rows, i) ==
    IF mtx[i][i] = 0 THEN [err |-> "ErrZeroDivision", val |-> << >>]
    ELSE [err |-> "nil",
          val |-> Eager(xformColumns(Eager(xformScale(mtx, n, rows, i)), n, rows, i))]

\* round i of the loop of g.mtx_xform_vandermonde after the rounds before it
\* gave prev
xformNext(prev, n, rows, i) ==
    IF prev.err # "nil" THEN prev ELSE xformRound(prev.val, n, rows, i)

\* the loop for i := 1; i < n; i++ of g.mtx_xform_vandermonde, rounds 1..i
RECURSIVE xformLoop(_, _, _, _)
xformLoop(mtx, n, rows, i) ==
    IF i = 0 THEN [err |-> "nil", val |-> mtx]
    ELSE xformNext(xformLoop(mtx, n, rows, i - 1), n, rows, i)

\* g.mtx_xform_vandermonde after "vmm, err := g.mtx_vandermonde(n, k)"
xformVandermonde(vmm, n, k) ==
    IF vmm.err # "nil" THEN vmm
    ELSE xformLoop(vmm.val, n, n + k, n - 1)

\* g.mtx_xform_vandermonde(n, k)
mtx_xform_vandermonde(n, k) == xformVandermonde(mtx_vandermonde(n, k), n, k)

\* g.mtx_inv, "if diagonal element is 0": add the first column j with
\* A[i][j] # 0 to column i, in A and in I
invPivot(S, n, i) ==
    LET A == S.A
        I == S.I
        nz == {j \in 0..(n - 1) : A[i][j] # 0}
    IN IF A[i][i] # 0 \/ nz = {} THEN S
       ELSE LET j == CHOOSE c \in nz : \A c2 \in nz : c <= c2
            IN [A |-> [k \in 0..(n - 1) |-> [c \in 0..(n - 1) |->
                          IF c = i THEN add(A[k][i], A[k][j]) ELSE A[k][c]]],
                I |-> [k \in 0..(n - 1) |-> [c \in 0..(n - 1) |->
                          IF c = i THEN add(I[k][i], I[k][j]) ELSE I[k][c]]]]

\* g.mtx_inv, "divide column by inverse of diagonal element, if diagonal
\* element isn't 1"; the diagonal element is not 0 here
invScale(S, n, i) ==
    LET A == S.A
        I == S.I
        v == A[i][i]
    IN IF v = 1 THEN S
       ELSE [A |-> [j \in 0..(n - 1) |-> [c \in 0..(n - 1) |->
                       IF c = i THEN div(A[j][i], v).val ELSE A[j][c]]],
             I |-> [j \in 0..(n - 1) |-> [c \in 0..(n - 1) |->
                       IF c = i THEN div(I[j][i], v).val ELSE I[j][c]]]]

\* g.mtx_inv, "now zero out the rest of the row": for every column j # i with
\* A[i][j] # 0 add A[i][j] * column i to column j, in A and in I
invEliminate(S, n, i) ==
    LET A == S.A
        I == S.I
    IN [A |-> [k \in 0..(n - 1) |-> [j \in 0..(n - 1) |->
                  IF j = i \/ A[i][j] = 0 THEN A[k][j]
                  ELSE add(mul(A[i][j], A[k][i]), A[k][j])]],
        I |-> [k \in 0..(n - 1) |-> [j \in 0..(n - 1) |->
                  IF j = i \/ A[i][j] = 0 THEN I[k][j]
                  ELSE add(mul(A[i][j], I[k][i]), I[k][j])]]]

\* round i of g.mtx_inv after its pivot step gave piv: "if diagonal element
\* is still 0, matrix isn't invertible", else scale and eliminate
invReduce(piv, n, i) ==
    IF piv.A[i][i] = 0
    THEN [err |-> "ErrNoninvertibleMatrix", val |-> piv]
    ELSE [err |-> "nil", val |-> Eager(invEliminate(Eager(invScale(piv, n, i)), n, i))]

\* round i of the loop of g.mtx_inv after the rounds before it gave prev
invNext(prev, n, i) ==
    IF prev.err # "nil" THEN prev
    ELSE invReduce(Eager(invPivot(prev.val, n, i)), n, i)

\* the loop for i := 0; i < n; i++ of g.mtx_inv, rounds 0..i-1
RECURSIVE invLoop(_, _, _)
invLoop(S, n, i) ==
    IF i = 0 THEN [err |-> "nil", val |-> S]
    ELSE invNext(invLoop(S, n, i - 1), n, i - 1)

\* g.mtx_inv: the result r of its loop as the result of the function
invResult(r) ==
    IF r.err # "nil" THEN [err |-> r.err, val |-> << >>]
    ELSE [err |-> "nil", val |-> r.val.I]

\* g.mtx_inv after "I, err := g.mtx_identity(n)"
invFrom(A, I, n) ==
    IF I.err # "nil" THEN [err |-> I.err, val |-> << >>]
    ELSE invResult(invLoop([A |-> A, I |-> I.val], n, n))

\* g.mtx_inv(A)
mtx_inv(A) ==
    IF len(A) # len(A[0]) THEN [err |-> "ErrNoninvertibleMatrix", val |-> << >>]
    ELSE invFrom(A, mtx_identity(len(A)), len(A))

(***************************************************************************)
(* The Reed-Solomon codec, type Code.                                      *)
(***************************************************************************)
\* NewCode after "mat, err := f.xformVandermondeMtx(n, k)"
codeOf(mat, n, k) ==
    IF mat.err # "nil" THEN [err |-> mat.err, val |-> << >>]
    ELSE [err |-> "nil", val |-> [n |-> n, k |-> k, mtx |-> mat.val]]

\* NewCode(n, k): the code over GaloisField{M, P} with the transformed
\* Vandermonde matrix as generator
NewCode(n, k) == codeOf(mtx_xform_vandermonde(n, k), n, k)

\* c.GetN()
GetN(c) == c.n

\* byte(x) of Go
byte(x) == x % 256

\* EncodeAligned: vec of stripe i, vec[j] = buf[i*n + j]
stripeVec(c, buf, i) == [j \in 0..(c.n - 1) |-> buf[i * c.n + j + 1]]

\* EncodeAligned with the results cod[i] of dotMtxVec for the stripes i: the
\* n+k slices, or the error of the first product that fails
encodeSlices(c, stripes, cod) ==
    IF \E i \in 0..(stripes - 1) : cod[i].err # "nil"
    THEN [err |-> "ErrDimensionMismatch", val |-> << >>]
    ELSE [err |-> "nil",
          val |-> [s \in 1..(c.n + c.k) |->
                      [Index |-> s - 1,
                       Length |-> stripes,
                       Data |-> [i \in 1..stripes |-> byte(cod[i - 1].val[s - 1])]]]]

\* c.EncodeAligned(buf)
EncodeAligned(c, buf) ==
    IF Len(buf) % c.n # 0 THEN [err |-> "ErrMisaligned", val |-> << >>]
    ELSE encodeSlices(c, Len(buf) \div c.n,
                      Eager([i \in 0..((Len(buf) \div c.n) - 1) |->
                                mtx_vec_dot(c.mtx, stripeVec(c, buf, i))]))

\* buildMatrix that takes rows 0..n-1 of the generator whatever the indices
\* of the slices are (a fault the decoding claim C6 has to detect)
buildMatrix_firstRows(c, slices) ==
    IF Len(slices) < c.n THEN [err |-> "ErrTooFewSlices", val |-> << >>]
    ELSE mtx_inv([i \in 0..(c.n - 1) |-> [j \in 0..(c.n - 1) |-> c.mtx[i][j]]])

\* c.buildMatrix(slices): the rows of the generator at the indices of the
\* first n slices, inverted
buildMatrix(c, slices) ==
    IF Len(slices) < c.n THEN [err |-> "ErrTooFewSlices", val |-> << >>]
    ELSE LET idx == [i \in 0..(c.n - 1) |-> slices[i + 1].Index]
             mtx == [i \in 0..(c.n - 1) |-> [j \in 0..(c.n - 1) |-> c.mtx[idx[i]][j]]]
         IN mtx_inv(mtx)

\* DecodeAligned and Rebuild: vec of stripe i, vec[j] = slices[j].Data[i]
sliceVec(c, slices, i) == [j \in 0..(c.n - 1) |-> slices[j + 1].Data[i + 1]]

\* DecodeAligned with the results dat[i] of dotMtxVec for the stripes i: the
\* bytes, or the error of the first product that fails
decodeBytes(c, stripes, dat) ==
    IF \E i \in 0..(stripes - 1) : dat[i].err # "nil"
    THEN [err |-> "ErrDimensionMismatch", val |-> << >>]
    ELSE [err |-> "nil",
          val |-> [b \in 1..(c.n * stripes) |->
                      byte(dat[(b - 1) \div c.n].val[(b - 1) % c.n])]]

\* DecodeAligned after "mtx, err := c.buildMatrix(slices)". Reading
\* slices[j].Data[i] of a slice shorter than slices[0] is Go's
\* index-out-of-range panic.
decodeWith(c, slices, mtx) ==
    IF mtx.err # "nil" THEN [err |-> mtx.err, val |-> << >>]
    ELSE IF \E j \in 1..c.n : Len(slices[j].Data) < Len(slices[1].Data)
    THEN [err |-> "panic", val |-> << >>]
    ELSE decodeBytes(c, Len(slices[1].Data),
                     Eager([i \in 0..(Len(slices[1].Data) - 1) |->
                               mtx_vec_dot(mtx.val, sliceVec(c, slices, i))]))

\* c.DecodeAligned(slices)
DecodeAligned(c, slices) ==
    IF Len(slices) < c.n THEN [err |-> "ErrTooFewSlices", val |-> << >>]
    ELSE decodeWith(c, slices, buildMatrix(c, slices))

\* first loop of c.Rebuild, round i after the rounds before it gave prev:
\* result[i] is slices[i] where i == slices[i].Index, else a zeroed slice.
\* slices[i] with i >= len(slices) is Go's index-out-of-range panic.
rebuildEntry(prev, slices, length, i) ==
    IF prev.err # "nil" THEN prev
    ELSE IF i >= Len(slices) THEN [err |-> "panic", val |-> << >>]
    ELSE IF i = slices[i + 1].Index
    THEN IF slices[i + 1].Length # length
         THEN [err |-> "ErrSliceMismatch", val |-> << >>]
         ELSE [err |-> "nil",
               val |-> Append(prev.val, [Index |-> i, Length |-> length,
                                         Data |-> slices[i + 1].Data])]
    ELSE [err |-> "nil",
          val |-> Append(prev.val, [Index |-> i, Length |-> length,
                                    Data |-> [b \in 1..length |-> 0]])]

\* first loop of c.Rebuild, "for i := range result", rounds 0..i-1
RECURSIVE rebuildInit(_, _, _, _)
rebuildInit(c, slices, length, i) ==
    IF i = 0 THEN [err |-> "nil", val |-> << >>]
    ELSE rebuildEntry(rebuildInit(c, slices, length, i - 1), slices, length, i - 1)

\* second loop of c.Rebuild, one stripe: dat of dotMtxVec(mtx, vec), then
\* cod of dotMtxVec(c.mtx, dat)
rebuildStripe(c, dat) ==
    IF dat.err # "nil" THEN dat ELSE mtx_vec_dot(c.mtx, dat.val)

\* second loop of c.Rebuild with the results cod[i] of the stripes: the byte
\* of every slice that was not given is the regenerated one
rebuildBytes(c, slices, result, stripes, cod) ==
    IF \E i \in 0..(stripes - 1) : cod[i].err # "nil"
    THEN [err |-> "ErrDimensionMismatch", val |-> << >>]
    ELSE [err |-> "nil",
          val |-> [j \in 1..(c.n + c.k) |->
                      IF j - 1 # slices[j].Index
                      THEN [result.val[j] EXCEPT
                               !.Data = [i \in 1..stripes |-> byte(cod[i - 1].val[j - 1])]]
                      ELSE result.val[j]]]

\* c.Rebuild after its first loop gave result
rebuildFrom(c, slices, mtx, result) ==
    IF result.err # "nil" THEN result
    ELSE IF \E j \in 1..c.n : Len(slices[j].Data) < Len(slices[1].Data)
    THEN [err |-> "panic", val |-> << >>]
    ELSE rebuildBytes(c, slices, result, Len(slices[1].Data),
                      Eager([i \in 0..(Len(slices[1].Data) - 1) |->
                                rebuildStripe(c, mtx_vec_dot(mtx.val, sliceVec(c, slices, i)))]))

\* c.Rebuild after "mtx, err := c.buildMatrix(slices)"
rebuildWith(c, slices, mtx) ==
    IF mtx.err # "nil" THEN [err |-> mtx.err, val |-> << >>]
    ELSE rebuildFrom(c, slices, mtx,
                     rebuildInit(c, slices, slices[1].Length, c.n + c.k))

\* c.Rebuild(slices)
Rebuild(c, slices) ==
    IF Len(slices) < c.n THEN [err |-> "ErrTooFewSlices", val |-> << >>]
    ELSE rebuildWith(c, slices, buildMatrix(c, slices))

(***************************************************************************)
(* State.                                                                  *)
(*   code      e.code of the device, made by NewErasureCoder(n, k, ...)    *)
(*   backends  content of every backend (a sequence of bytes)              *)
(*   hist      the requests issued to the device, in order; the last one   *)
(*             may be in progress (ret = "pending")                        *)
(*   rd        the locals of the running denseReadAt                       *)
(*   rtask     the aread goroutines of the last read fan-out               *)
(*   rch       channel ch of denseReadAt (buffered, len(e.backends))       *)
(*   wr        the locals of the running denseWriteAt                      *)
(*   wtask     the awrite goroutines of the last write fan-out             *)
(*   wch       number of values in channel ch of denseWriteAt              *)
(*   pin, pout input and result of one call of a pure function             *)
(* Channel ec of either function is unbuffered: a goroutine "blocked" is   *)
(* one that waits in e <- err for the receive.                             *)
(***************************************************************************)
VARIABLES code, backends, hist, rd, rtask, rch, wr, wtask, wch, pin, pout

devvars == <<code, backends, hist, rd, rtask, rch, wr, wtask, wch>>

vars == <<code, backends, hist, rd, rtask, rch, wr, wtask, wch, pin, pout>>

\* the indices of e.backends; backend i stores slice i
Backends == 0..(code.n + code.k - 1)

\* number of bytes of a backend: every request of the model stays within it
BackendLen == ((MaxOff + MaxLen) \div code.n) + 3

(***************************************************************************)
(* The erasure-coded device, type ErasureCoder.                            *)
(***************************************************************************)
\* start := off - (off % n)
alignStart(off, n) == off - (off % n)

\* reduce := (off + l) % n; length := off + l + n - reduce - start
alignLength(off, l, n) == off + l + n - ((off + l) % n) - alignStart(off, n)

\* the locals of denseReadAt(buf, off) before its fan-out, l = len(buf)
readFrame(l, off) ==
    LET n == GetN(code)
        start == alignStart(off, n)
        length == alignLength(off, l, n)
    IN [pc |-> "loop", off |-> off, l |-> l,
        prePadLen |-> off % n,
        sliceOff |-> start \div n,
        sliceLen |-> length \div n,
        i |-> 0, sliceIdx |-> 0, slices |-> << >>]

\* denseReadAt has returned: of its locals only the arguments length and
\* offset of the goroutines it has started are left
readGone(f) == [pc |-> "done", sliceOff |-> f.sliceOff, sliceLen |-> f.sliceLen]

\* backend.ReadAt(buf, offset) of a backend that answers: length bytes at offset
backendRead(content, length, offset) == SubSeq(content, offset + 1, offset + length)

\* backend.WriteAt(buffer, offset) of a backend that answers
backendWrite(content, buffer, offset) ==
    [p \in 1..Len(content) |->
        IF p > offset /\ p <= offset + Len(buffer) THEN buffer[p - offset] ELSE content[p]]

\* aread: the slice sent on c when backend.ReadAt returns no error
aread(length, offset, idx, content) ==
    [Index |-> idx, Length |-> length, Data |-> backendRead(content, length, offset)]

\* the loop of denseReadAt with n receives instead of len(e.backends) (a fault
\* the claim C2 on ErrTooFewSlices has to detect)
readLoopLeft_n(i, sliceIdx, gotSlice) ==
    \/ gotSlice /\ sliceIdx = GetN(code)
    \/ i + 1 >= GetN(code)

\* the loop of denseReadAt without its "if int64(sliceIdx) == n { break }" (a
\* fault the claim C12 on returning after n slices has to detect)
readLoopLeft_all(i, sliceIdx, gotSlice) == i + 1 >= Cardinality(Backends)

\* the loop of denseReadAt, "for i := 0; i < len(e.backends); i++": TRUE when
\* the loop is left after the receive that made the counters i and sliceIdx.
\* A slice received with sliceIdx == n breaks; otherwise i++ and the loop test.
readLoopLeft(i, sliceIdx, gotSlice) ==
    \/ gotSlice /\ sliceIdx = GetN(code)
    \/ i + 1 >= Cardinality(Backends)

\* denseReadAt after "alignedBuffer, err := e.code.DecodeAligned(slices)"
readBytes(f, dec) ==
    IF dec.err # "nil" THEN [n |-> 0, err |-> dec.err, data |-> << >>]
    ELSE [n |-> f.l, err |-> "nil",
          data |-> SubSeq(dec.val, f.prePadLen + 1, f.prePadLen + f.l)]

\* denseReadAt after its loop, and ReadAt around it: ErrTooFewSlices with
\* fewer than n slices, else the bytes [prePadLen, prePadLen + l) of the
\* decoded buffer and len(buf)
readResult(f) ==
    IF f.sliceIdx < GetN(code)
    THEN [n |-> 0, err |-> "ErrTooFewSlices", data |-> << >>]
    ELSE readBytes(f, DecodeAligned(code, f.slices))

\* the locals of denseWriteAt(buf, off) before its first ReadAt
writeFrame(buf, off) ==
    LET n == GetN(code)
    IN [pc |-> "prepad", buf |-> buf, off |-> off,
        start |-> alignStart(off, n),
        length |-> alignLength(off, Len(buf), n),
        prePadLine |-> << >>, slices |-> << >>, i |-> 0]

\* denseWriteAt: alignedBuffer from prePadLine, buf and postPadLine
alignedBuffer(w, postPadLine) ==
    LET n == GetN(code)
        l == Len(w.buf)
        prePadLen == w.off % n
        postPadLen == w.length - prePadLen - l
    IN [p \in 1..w.length |->
           IF p - 1 < prePadLen THEN w.prePadLine[p]
           ELSE IF p - 1 < prePadLen + l THEN w.buf[p - prePadLen]
           ELSE postPadLine[n - (w.length - (p - 1)) + 1]]

\* the loop of denseWriteAt with n receives instead of len(e.backends) (a fault
\* the claim C13 on awaiting every backend write has to detect)
writeLoopLeft_n(i) == i + 1 >= GetN(code)

\* the loop of denseWriteAt, "for i := range e.backends": TRUE when the receive
\* with counter i was the last one
writeLoopLeft(i) == i + 1 >= Cardinality(Backends)

\* the device variables of a specification of the pure functions
NoDevice ==
    /\ code = [n |-> 0, k |-> 0, mtx |-> << >>]
    /\ backends = << >>
    /\ hist = << >>
    /\ rd = [pc |-> "idle"]
    /\ rtask = << >>
    /\ rch = << >>
    /\ wr = [pc |-> "idle"]
    /\ wtask = << >>
    /\ wch = 0

\* the matrices mtx_inv is called with
Matrices(d) == [0..(d - 1) -> [0..(d - 1) -> {0, 1, 2}]]

\* the byte buffers of the calls: len bytes counting up from seed in steps of 31
Pattern(seed, length) == [i \in 1..length |-> (seed + 31 * (i - 1)) % 256]

BufSeeds == {1, 97, 250}

\* the subsets of S with exactly m elements
SubsetsOfSize(S, m) == {T \in SUBSET S : Cardinality(T) = m}

\* the elements of a set of numbers in ascending order
RECURSIVE Ascending(_)
Ascending(S) ==
    IF S = {} THEN << >>
    ELSE LET lo == CHOOSE x \in S : \A y \in S : x <= y
         IN <<lo>> \o Ascending(S \ {lo})

\* the slices of a list whose index is in keep, in the order of the list
KeepSlices(slices, keep) == SelectSeq(slices, LAMBDA sl : sl.Index \in keep)

InitInv ==
    /\ pin \in {[op |-> "mtx_inv", A |-> A] : A \in UNION {Matrices(d) : d \in 1..MaxDim}}
    /\ pout = [err |-> "pending"]
    /\ NoDevice

\* one call of mtx_inv
Invert ==
    /\ pin.op = "mtx_inv"
    /\ pout.err = "pending"
    /\ pout' = mtx_inv(pin.A)
    /\ UNCHANGED <<pin, devvars>>

SpecInv == InitInv /\ [][Invert]_vars

\* the codes, buffers and surviving slices of the codec calls
CodecInputs ==
    UNION {
        {[op |-> "NewCode", n |-> n, k |-> k]}
        \cup {[op |-> "Decode", n |-> n, k |-> k, buf |-> Pattern(seed, n * st),
               keep |-> (0..(n + k - 1)) \ lost]
                : seed \in BufSeeds, st \in 0..MaxStripes,
                  lost \in {T \in SUBSET (0..(n + k - 1)) : Cardinality(T) <= k}}
        \cup {[op |-> "Rebuild", n |-> n, k |-> k, buf |-> Pattern(seed, n * st),
               keep |-> keep]
                : seed \in BufSeeds, st \in 0..MaxStripes,
                  keep \in SubsetsOfSize(0..(n + k - 1), n)}
        : n \in 1..MaxN, k \in 0..MaxK}

InitCodec ==
    /\ pin \in CodecInputs
    /\ pout = [err |-> "pending"]
    /\ NoDevice

\* DecodeAligned of the slices of the encoding enc whose index is in keep
decodeKept(c, enc, keep) ==
    IF enc.err # "nil" THEN enc ELSE DecodeAligned(c, KeepSlices(enc.val, keep))

\* Rebuild from the slices of the encoding enc whose index is in keep
rebuildKept(c, enc, keep) ==
    IF enc.err # "nil" THEN enc ELSE Rebuild(c, KeepSlices(enc.val, keep))

\* NewCode(n, k)
CallNewCode ==
    /\ pin.op = "NewCode"
    /\ pout.err = "pending"
    /\ pout' = NewCode(pin.n, pin.k)
    /\ UNCHANGED <<pin, devvars>>

\* EncodeAligned(buf), then DecodeAligned of the slices that are kept
CallDecode ==
    /\ pin.op = "Decode"
    /\ pout.err = "pending"
    /\ pout' = decodeKept(NewCode(pin.n, pin.k).val,
                           EncodeAligned(NewCode(pin.n, pin.k).val, pin.buf), pin.keep)
    /\ UNCHANGED <<pin, devvars>>

\* EncodeAligned(buf), then Rebuild from the slices that are kept
CallRebuild ==
    /\ pin.op = "Rebuild"
    /\ pout.err = "pending"
    /\ pout' = rebuildKept(NewCode(pin.n, pin.k).val,
                            EncodeAligned(NewCode(pin.n, pin.k).val, pin.buf), pin.keep)
    /\ UNCHANGED <<pin, devvars>>

NextCodec == CallNewCode \/ CallDecode \/ CallRebuild

SpecCodec == InitCodec /\ [][NextCodec]_vars

\* the codes, buffers and lists of n slices of the calls of DecodeAligned: the
\* slices of the encoding at the indices pick[1], ..., pick[n], in that order
PickInputs ==
    UNION {
        {[op |-> "DecodePick", n |-> n, k |-> k, buf |-> Pattern(seed, n * st), pick |-> pick]
            : seed \in BufSeeds, st \in 1..MaxStripes,
              pick \in [1..n -> 0..(n + k - 1)]}
        : n \in 1..MaxN, k \in 0..MaxK}

InitPick ==
    /\ pin \in PickInputs
    /\ pout = [err |-> "pending"]
    /\ NoDevice

\* DecodeAligned of the slices of the encoding enc at the indices of pick
decodePicked(c, enc, pick) ==
    IF enc.err # "nil" THEN enc
    ELSE DecodeAligned(c, [i \in 1..Len(pick) |-> enc.val[pick[i] + 1]])

\* EncodeAligned(buf), then DecodeAligned of the slices picked
CallDecodePick ==
    /\ pin.op = "DecodePick"
    /\ pout.err = "pending"
    /\ pout' = decodePicked(NewCode(pin.n, pin.k).val,
                             EncodeAligned(NewCode(pin.n, pin.k).val, pin.buf), pin.pick)
    /\ UNCHANGED <<pin, devvars>>

SpecPick == InitPick /\ [][CallDecodePick]_vars

\* calls of mtx_inv and calls of DecodeAligned
SpecInvPick == (InitInv \/ InitPick) /\ [][Invert \/ CallDecodePick]_vars

(***************************************************************************)
(* The device under requests.  A request is issued when no other request   *)
(* is in progress; what it does between its blocking points is one step.   *)
(* The goroutines of a read fan-out are followed until the next read       *)
(* fan-out starts.                                                         *)
(***************************************************************************)
Pending == [n |-> 0, err |-> "pending", data |-> << >>]

\* the request issued last
Cur == hist[Len(hist)]

\* no request is in progress
Idle == IF hist = << >> THEN TRUE ELSE Cur.ret.err # "pending"

AllRun == [b \in Backends |-> "run"]

\* the codes of the devices: NewErasureCoder(n, k, size, backends) with
\* (n, k) = (3, 1) and (2, 2)
DevCodes == {NewCode(3, 1).val, NewCode(2, 2).val}

InitDev ==
    /\ code \in DevCodes
    /\ backends = [b \in Backends |-> [p \in 1..BackendLen |-> 0]]
    /\ hist = << >>
    /\ rd = [pc |-> "idle"]
    /\ rtask = [b \in Backends |-> "idle"]
    /\ rch = << >>
    /\ wr = [pc |-> "idle"]
    /\ wtask = [b \in Backends |-> "idle"]
    /\ wch = 0
    /\ pin = [op |-> "none"]
    /\ pout = [err |-> "none"]

\* ReadAt(buf, off) with len(buf) = l is called; the backends in fail return
\* an error to every call of this request. denseReadAt runs up to its loop:
\* one goroutine aread per backend.
IssueRead(l, off, fail) ==
    /\ Idle
    /\ hist' = Append(hist, [kind |-> "read", off |-> off, l |-> l, buf |-> << >>,
                             fail |-> fail, before |-> backends, ret |-> Pending])
    /\ rd' = readFrame(l, off)
    /\ rtask' = AllRun
    /\ rch' = << >>
    /\ UNCHANGED <<code, backends, wr, wtask, wch, pin, pout>>

\* WriteAt(buf, off) is called. denseWriteAt runs up to the loop of the
\* denseReadAt that e.ReadAt(prePadLine, start) calls.
IssueWrite(buf, off, fail) ==
    /\ Idle
    /\ hist' = Append(hist, [kind |-> "write", off |-> off, l |-> Len(buf), buf |-> buf,
                             fail |-> fail, before |-> backends, ret |-> Pending])
    /\ wr' = writeFrame(buf, off)
    /\ rd' = readFrame(GetN(code), alignStart(off, GetN(code)))
    /\ rtask' = AllRun
    /\ rch' = << >>
    /\ UNCHANGED <<code, backends, wtask, wch, pin, pout>>

\* goroutine aread of backend b: backend.ReadAt, then e <- err or c <- slice.
\* c has room for every goroutine, so the send on it never blocks.
ReadTask(b) ==
    /\ rtask[b] = "run"
    /\ IF b \in Cur.fail
       THEN /\ rtask' = [rtask EXCEPT ![b] = "blocked"]
            /\ UNCHANGED rch
       ELSE /\ rtask' = [rtask EXCEPT ![b] = "done"]
            /\ rch' = Append(rch, aread(rd.sliceLen, rd.sliceOff, b, backends[b]))
    /\ UNCHANGED <<code, backends, hist, rd, wr, wtask, wch, pin, pout>>

\* denseWriteAt returning nil where a ReadAt or EncodeAligned has returned an
\* error (a fault the claim C15 on a failed read-back has to detect)
WriteFails_nil(err, f, tasks, chan) ==
    /\ hist' = [hist EXCEPT ![Len(hist)].ret = [n |-> 0, err |-> "nil", data |-> << >>]]
    /\ wr' = [wr EXCEPT !.pc = "done"]
    /\ rd' = readGone(f)
    /\ rtask' = tasks
    /\ rch' = chan
    /\ UNCHANGED <<wtask, wch>>

\* denseWriteAt returns the error err of a ReadAt or of EncodeAligned
WriteFails(err, f, tasks, chan) ==
    /\ hist' = [hist EXCEPT ![Len(hist)].ret = [n |-> 0, err |-> err, data |-> << >>]]
    /\ wr' = [wr EXCEPT !.pc = "done"]
    /\ rd' = readGone(f)
    /\ rtask' = tasks
    /\ rch' = chan
    /\ UNCHANGED <<wtask, wch>>

\* denseWriteAt after "slices, err := e.code.EncodeAligned(alignedBuffer)": one
\* goroutine awrite per backend, up to its loop
WriteFanOut(enc, f, tasks, chan) ==
    IF enc.err # "nil" THEN WriteFails(enc.err, f, tasks, chan)
    ELSE /\ wr' = [wr EXCEPT !.pc = "fanout", !.slices = enc.val, !.i = 0]
         /\ wtask' = AllRun
         /\ wch' = 0
         /\ rd' = readGone(f)
         /\ rtask' = tasks
         /\ rch' = chan
         /\ UNCHANGED hist

\* the denseReadAt with locals f, goroutines tasks and channel chan returns
\* res to its caller and its locals are gone. The caller is the client
\* (ReadAt), or denseWriteAt, which goes on to its next blocking point: the
\* loop of the ReadAt for postPadLine, or its own loop after the fan-out of
\* awrite.
ReadReturns(res, f, tasks, chan) ==
    IF Cur.kind = "read"
    THEN /\ hist' = [hist EXCEPT ![Len(hist)].ret = res]
         /\ rd' = readGone(f)
         /\ rtask' = tasks
         /\ rch' = chan
         /\ UNCHANGED <<wr, wtask, wch>>
    ELSE IF res.err # "nil" THEN WriteFails(res.err, f, tasks, chan)
    ELSE IF wr.pc = "prepad"
    THEN /\ wr' = [wr EXCEPT !.pc = "postpad", !.prePadLine = res.data]
         /\ rd' = readFrame(GetN(code), wr.start + wr.length - GetN(code))
         /\ rtask' = AllRun
         /\ rch' = << >>
         /\ UNCHANGED <<hist, wtask, wch>>
    ELSE WriteFanOut(EncodeAligned(code, alignedBuffer(wr, res.data)), f, tasks, chan)

\* denseReadAt has left its loop with locals f
ReadLeaves(f, tasks, chan) == ReadReturns(readResult(f), f, tasks, chan)

\* the loop of denseReadAt receives a slice: case dat := <-ch
ReadRecvSlice ==
    /\ rd.pc = "loop"
    /\ rch # << >>
    /\ LET f == [rd EXCEPT !.slices = Append(rd.slices, Head(rch)),
                           !.sliceIdx = rd.sliceIdx + 1]
       IN IF readLoopLeft(rd.i, f.sliceIdx, TRUE)
          THEN ReadLeaves(f, rtask, Tail(rch))
          ELSE /\ rd' = [f EXCEPT !.i = rd.i + 1]
               /\ rch' = Tail(rch)
               /\ UNCHANGED <<hist, rtask, wr, wtask, wch>>
    /\ UNCHANGED <<code, backends, pin, pout>>

\* the loop of denseReadAt receives the error of backend b: case err := <-ec
ReadRecvErr(b) ==
    /\ rd.pc = "loop"
    /\ rtask[b] = "blocked"
    /\ LET tasks == [rtask EXCEPT ![b] = "done"]
       IN IF readLoopLeft(rd.i, rd.sliceIdx, FALSE)
          THEN ReadLeaves(rd, tasks, rch)
          ELSE /\ rd' = [rd EXCEPT !.i = rd.i + 1]
               /\ rtask' = tasks
               /\ UNCHANGED <<hist, rch, wr, wtask, wch>>
    /\ UNCHANGED <<code, backends, pin, pout>>

\* goroutine awrite of backend b: backend.WriteAt, then e <- err or c <- length
WriteTask(b) ==
    /\ wtask[b] = "run"
    /\ IF b \in Cur.fail
       THEN /\ wtask' = [wtask EXCEPT ![b] = "blocked"]
            /\ UNCHANGED <<backends, wch>>
       ELSE /\ wtask' = [wtask EXCEPT ![b] = "done"]
            /\ backends' = [backends EXCEPT ![b] =
                               backendWrite(backends[b], wr.slices[b + 1].Data,
                                            wr.start \div GetN(code))]
            /\ wch' = wch + 1
    /\ UNCHANGED <<code, hist, rd, rtask, rch, wr, pin, pout>>

\* denseWriteAt has left its loop: return 0, nil
WriteLeaves ==
    /\ hist' = [hist EXCEPT ![Len(hist)].ret = [n |-> 0, err |-> "nil", data |-> << >>]]
    /\ wr' = [wr EXCEPT !.pc = "done"]

\* the loop of denseWriteAt receives a length: case <-ch
WriteRecv ==
    /\ wr.pc = "fanout"
    /\ wch > 0
    /\ wch' = wch - 1
    /\ IF writeLoopLeft(wr.i)
       THEN WriteLeaves
       ELSE /\ wr' = [wr EXCEPT !.i = wr.i + 1]
            /\ UNCHANGED hist
    /\ UNCHANGED <<code, backends, rd, rtask, rch, wtask, pin, pout>>

\* the loop of denseWriteAt receives the error of backend b: case err := <-ec
WriteRecvErr(b) ==
    /\ wr.pc = "fanout"
    /\ wtask[b] = "blocked"
    /\ wtask' = [wtask EXCEPT ![b] = "done"]
    /\ IF writeLoopLeft(wr.i)
       THEN WriteLeaves
       ELSE /\ wr' = [wr EXCEPT !.i = wr.i + 1]
            /\ UNCHANGED hist
    /\ UNCHANGED <<code, backends, rd, rtask, rch, wch, pin, pout>>

\* the buffers of the requests to the device
DevBufs == {Pattern(97, l) : l \in 0..MaxLen}

\* the client writes a buffer to a fresh device
ClientWrite ==
    \E buf \in DevBufs, off \in 0..MaxOff :
        /\ hist = << >>
        /\ IssueWrite(buf, off, {})

\* the client reads the range it has written, while the backends of fail
\* return errors
ClientReadBack ==
    \E fail \in SUBSET Backends :
        /\ Len(hist) = 1
        /\ IssueRead(hist[1].l, hist[1].off, fail)

StepReadTask == \E b \in Backends : ReadTask(b)

StepReadRecvErr == \E b \in Backends : ReadRecvErr(b)

StepWriteTask == \E b \in Backends : WriteTask(b)

\* a write to a fresh device, then a read of the written range under backend
\* failures
Next ==
    \/ ClientWrite
    \/ ClientReadBack
    \/ StepReadTask
    \/ ReadRecvSlice
    \/ StepReadRecvErr
    \/ StepWriteTask
    \/ WriteRecv

Spec == InitDev /\ [][Next]_vars

\* the select of denseReadAt takes a slice from ch: case dat := <-ch
RecvFromCh ==
    /\ rd.pc = "loop"
    /\ rch # << >>
    /\ rch' = Tail(rch)

\* the select of denseReadAt takes the error of a goroutine that is at its
\* send on ec: case err := <-ec
RecvFromEc ==
    /\ rd.pc = "loop"
    /\ \E b \in Backends :
           /\ rtask[b] = "blocked"
           /\ rtask' = [rtask EXCEPT ![b] = "done"]

\* A select with a case that is ready does not block: the request goroutine
\* takes a message that is ready on one of its channels. Nothing makes a
\* backend answer, so a goroutine aread or awrite may stay in its backend call
\* forever.
SpecLive ==
    /\ InitDev
    /\ [][Next]_vars
    /\ WF_rch(RecvFromCh)
    /\ WF_rtask(RecvFromEc)
    /\ WF_vars(WriteRecv)

\* the buffers of the second write to the device
DevBufs2 == {Pattern(200, l) : l \in 0..MaxLen}

\* the client writes a second buffer to the device it has written to
ClientWriteOver ==
    \E buf \in DevBufs2, off \in 0..MaxOff :
        /\ Len(hist) = 1
        /\ IssueWrite(buf, off, {})

\* the client fills a fresh device: it writes whole stripes from offset 0, as
\* many as the backends have room for (the write reads two stripes beyond its
\* last byte)
ClientFill ==
    /\ hist = << >>
    /\ IssueWrite(Pattern(97, GetN(code) * (BackendLen - 2)), 0, {})

\* a device is filled and written to once more, no backend fails
NextWW ==
    \/ ClientFill
    \/ ClientWriteOver
    \/ StepReadTask
    \/ ReadRecvSlice
    \/ StepWriteTask
    \/ WriteRecv

SpecWW == InitDev /\ [][NextWW]_vars

\* the client writes the buffer it has written once more, at the same offset
ClientWriteSame ==
    /\ Len(hist) = 1
    /\ IssueWrite(hist[1].buf, hist[1].off, {})

\* the client reads the range it has written twice
ClientReadSame ==
    /\ Len(hist) = 2
    /\ IssueRead(hist[1].l, hist[1].off, {})

\* the same write twice, then a read of the written range, no backend fails
NextWWR ==
    \/ ClientWrite
    \/ ClientWriteSame
    \/ ClientReadSame
    \/ StepReadTask
    \/ ReadRecvSlice
    \/ StepWriteTask
    \/ WriteRecv

SpecWWR == InitDev /\ [][NextWWR]_vars

\* the client writes a buffer to a fresh device while the backends of fail
\* return errors
ClientWriteFailing ==
    \E buf \in DevBufs, off \in 0..MaxOff, fail \in SUBSET Backends :
        /\ hist = << >>
        /\ IssueWrite(buf, off, fail)

\* backend b, which has answered the reads for prePadLine, returns errors from
\* the reads for postPadLine on
BackendBreaks(b) ==
    /\ wr.pc = "postpad"
    /\ rd.pc = "loop"
    /\ rtask = AllRun
    /\ b \notin Cur.fail
    /\ hist' = [hist EXCEPT ![Len(hist)].fail = @ \cup {b}]
    /\ UNCHANGED <<code, backends, rd, rtask, rch, wr, wtask, wch, pin, pout>>

StepBackendBreaks == \E b \in Backends : BackendBreaks(b)

StepWriteRecvErr == \E b \in Backends : WriteRecvErr(b)

\* a write to a fresh device under backend failures
NextWF ==
    \/ ClientWriteFailing
    \/ StepBackendBreaks
    \/ StepReadTask
    \/ ReadRecvSlice
    \/ StepReadRecvErr
    \/ StepWriteTask
    \/ WriteRecv
    \/ StepWriteRecvErr

SpecWF == InitDev /\ [][NextWF]_vars

(***************************************************************************)
(* Two calls of WriteAt at the same time.  Each call has its own locals,   *)
(* goroutines and channels: in this specification wr, rd, rtask, rch,      *)
(* wtask and wch hold one value per call, at index 1 and 2, and hist holds *)
(* the two calls.  No backend fails.  The goroutines aread of a ReadAt     *)
(* that has returned are not followed: the slice of such a goroutine stays *)
(* in a channel nobody receives from.                                      *)
(***************************************************************************)
Writers == {1, 2}

\* the goroutines aread of a denseReadAt that has returned
ReadersGone == [b \in Backends |-> "gone"]

\* the codes of the devices: NewErasureCoder(n, k, size, backends) with
\* (n, k) = (1, 1) and (2, 1)
ConcCodes == {NewCode(1, 1).val, NewCode(2, 1).val}

InitConc ==
    /\ code \in ConcCodes
    /\ backends = [b \in Backends |-> [p \in 1..BackendLen |-> 0]]
    /\ hist = << >>
    /\ rd = << >>
    /\ rtask = << >>
    /\ rch = << >>
    /\ wr = << >>
    /\ wtask = << >>
    /\ wch = << >>
    /\ pin = [op |-> "none"]
    /\ pout = [err |-> "none"]

\* the stripes of the bytes [off, off + l)
StripesOf(off, l, n) == (off \div n)..((off + l - 1) \div n)

\* the ranges (off, l) of two calls: at least one byte each, within the
\* first MaxConcStripes stripes, the first range in stripes before those of
\* the second
ConcRanges(n) ==
    {r \in [off1 : 0..(MaxOff + MaxLen - 1), l1 : 1..MaxLen,
            off2 : 0..(MaxOff + MaxLen - 1), l2 : 1..MaxLen] :
        /\ r.off2 + r.l2 <= MaxConcStripes * n
        /\ (r.off1 + r.l1 - 1) \div n < r.off2 \div n}

\* the record of hist of a call WriteAt(buf, off)
writeCall(buf, off) ==
    [kind |-> "write", off |-> off, l |-> Len(buf), buf |-> buf,
     fail |-> {}, before |-> backends, ret |-> Pending]

\* WriteAt(buf1, off1) and WriteAt(buf2, off2) are called on a fresh device;
\* each denseWriteAt runs up to the loop of the denseReadAt that
\* e.ReadAt(prePadLine, start) calls
ConcIssue ==
    \E r \in ConcRanges(GetN(code)) :
        /\ hist = << >>
        /\ hist' = <<writeCall(Pattern(97, r.l1), r.off1), writeCall(Pattern(200, r.l2), r.off2)>>
        /\ wr' = <<writeFrame(Pattern(97, r.l1), r.off1), writeFrame(Pattern(200, r.l2), r.off2)>>
        /\ rd' = <<readFrame(GetN(code), alignStart(r.off1, GetN(code))),
                   readFrame(GetN(code), alignStart(r.off2, GetN(code)))>>
        /\ rtask' = <<AllRun, AllRun>>
        /\ rch' = << << >>, << >> >>
        /\ wtask' = <<[b \in Backends |-> "idle"], [b \in Backends |-> "idle"]>>
        /\ wch' = <<0, 0>>
        /\ UNCHANGED <<code, backends, pin, pout>>

\* goroutine aread of backend b, started by call w: backend.ReadAt, c <- slice
ConcReadTask(w, b) ==
    /\ Len(hist) = 2
    /\ rtask[w][b] = "run"
    /\ rtask' = [rtask EXCEPT ![w][b] = "done"]
    /\ rch' = [rch EXCEPT ![w] = Append(@, aread(rd[w].sliceLen, rd[w].sliceOff, b, backends[b]))]
    /\ UNCHANGED <<code, backends, hist, rd, wr, wtask, wch, pin, pout>>

\* call w returns the error err of a ReadAt or of EncodeAligned
ConcWriteFails(w, err, f) ==
    /\ hist' = [hist EXCEPT ![w].ret = [n |-> 0, err |-> err, data |-> << >>]]
    /\ wr' = [wr EXCEPT ![w].pc = "done"]
    /\ rd' = [rd EXCEPT ![w] = readGone(f)]
    /\ rch' = [rch EXCEPT ![w] = << >>]
    /\ rtask' = [rtask EXCEPT ![w] = ReadersGone]
    /\ UNCHANGED <<wtask, wch>>

\* call w after "slices, err := e.code.EncodeAligned(alignedBuffer)": one
\* goroutine awrite per backend, up to its loop
ConcWriteFanOut(w, enc, f) ==
    IF enc.err # "nil" THEN ConcWriteFails(w, enc.err, f)
    ELSE /\ wr' = [wr EXCEPT ![w].pc = "fanout", ![w].slices = enc.val, ![w].i = 0]
         /\ wtask' = [wtask EXCEPT ![w] = AllRun]
         /\ rd' = [rd EXCEPT ![w] = readGone(f)]
         /\ rch' = [rch EXCEPT ![w] = << >>]
         /\ rtask' = [rtask EXCEPT ![w] = ReadersGone]
         /\ UNCHANGED <<hist, wch>>

\* the denseReadAt of call w returns res to denseWriteAt, which goes on to
\* its next blocking point: the loop of the ReadAt for postPadLine, or its own
\* loop after the fan-out of awrite
ConcReadReturns(w, res, f) ==
    IF res.err # "nil" THEN ConcWriteFails(w, res.err, f)
    ELSE IF wr[w].pc = "prepad"
    THEN /\ wr' = [wr EXCEPT ![w].pc = "postpad", ![w].prePadLine = res.data]
         /\ rd' = [rd EXCEPT ![w] = readFrame(GetN(code),
                                              wr[w].start + wr[w].length - GetN(code))]
         /\ rtask' = [rtask EXCEPT ![w] = AllRun]
         /\ rch' = [rch EXCEPT ![w] = << >>]
         /\ UNCHANGED <<hist, wtask, wch>>
    ELSE ConcWriteFanOut(w, EncodeAligned(code, alignedBuffer(wr[w], res.data)), f)

\* the loop of the denseReadAt of call w receives a slice: case dat := <-ch
ConcReadRecv(w) ==
    /\ Len(hist) = 2
    /\ rd[w].pc = "loop"
    /\ rch[w] # << >>
    /\ LET f == [rd[w] EXCEPT !.slices = Append(rd[w].slices, Head(rch[w])),
                              !.sliceIdx = rd[w].sliceIdx + 1]
       IN IF readLoopLeft(rd[w].i, f.sliceIdx, TRUE)
          THEN ConcReadReturns(w, readResult(f), f)
          ELSE /\ rd' = [rd EXCEPT ![w] = [f EXCEPT !.i = rd[w].i + 1]]
               /\ rch' = [rch EXCEPT ![w] = Tail(@)]
               /\ UNCHANGED <<hist, rtask, wr, wtask, wch>>
    /\ UNCHANGED <<code, backends, pin, pout>>

\* goroutine awrite of backend b, started by call w: backend.WriteAt, c <- length
ConcWriteTask(w, b) ==
    /\ Len(hist) = 2
    /\ wtask[w][b] = "run"
    /\ wtask' = [wtask EXCEPT ![w][b] = "done"]
    /\ backends' = [backends EXCEPT ![b] =
                       backendWrite(backends[b], wr[w].slices[b + 1].Data,
                                    wr[w].start \div GetN(code))]
    /\ wch' = [wch EXCEPT ![w] = @ + 1]
    /\ UNCHANGED <<code, hist, rd, rtask, rch, wr, pin, pout>>

\* the loop of the denseWriteAt of call w receives a length: case <-ch
ConcWriteRecv(w) ==
    /\ Len(hist) = 2
    /\ wr[w].pc = "fanout"
    /\ wch[w] > 0
    /\ wch' = [wch EXCEPT ![w] = @ - 1]
    /\ IF writeLoopLeft(wr[w].i)
       THEN /\ hist' = [hist EXCEPT ![w].ret = [n |-> 0, err |-> "nil", data |-> << >>]]
            /\ wr' = [wr EXCEPT ![w].pc = "done"]
       ELSE /\ wr' = [wr EXCEPT ![w].i = @ + 1]
            /\ UNCHANGED hist
    /\ UNCHANGED <<code, backends, rd, rtask, rch, wtask, pin, pout>>

StepConcReadTask == \E w \in Writers, b \in Backends : ConcReadTask(w, b)

StepConcReadRecv == \E w \in Writers : ConcReadRecv(w)

StepConcWriteTask == \E w \in Writers, b \in Backends : ConcWriteTask(w, b)

StepConcWriteRecv == \E w \in Writers : ConcWriteRecv(w)

NextConc ==
    \/ ConcIssue
    \/ StepConcReadTask
    \/ StepConcReadRecv
    \/ StepConcWriteTask
    \/ StepConcWriteRecv

SpecConc == InitConc /\ [][NextConc]_vars

(***************************************************************************)
(* Reference notions of linear algebra over the field, used to state the   *)
(* claims (they are not part of the program).                              *)
(***************************************************************************)
\* A without row 0 and column c, re-indexed from 0
MinorOf(A, c) ==
    [i \in 0..(len(A) - 2) |->
        [j \in 0..(len(A) - 2) |-> A[i + 1][IF j < c THEN j ELSE j + 1]]]

\* sum over the field of f[c] for c in 0..m-1
RECURSIVE FieldSum(_, _)
FieldSum(f, m) == IF m = 0 THEN 0 ELSE add(FieldSum(f, m - 1), f[m - 1])

\* determinant by expansion along row 0 (signs vanish in characteristic 2)
RECURSIVE Det(_)
Det(A) ==
    IF len(A) = 1 THEN A[0][0]
    ELSE FieldSum([c \in 0..(len(A) - 1) |-> mul(A[0][c], Det(MinorOf(A, c)))], len(A))

\* the matrix product X * Y of two square matrices of the same dimension
MatMul(X, Y) ==
    [i \in DOMAIN X |->
        [j \in DOMAIN X |->
            FieldSum([c \in DOMAIN X |-> mul(X[i][c], Y[c][j])], len(X))]]

\* C8: for every invertible square matrix A, mtx_inv(A) returns no error and a
\* matrix whose product with A is the identity matrix
C8_InverseTimesMatrixIsIdentity ==
    (pin.op = "mtx_inv" /\ pout.err # "pending" /\ Det(pin.A) # 0)
        => /\ pout.err = "nil"
           /\ MatMul(pout.val, pin.A) = mtx_identity(len(pin.A)).val

\* the generator matrix rows at the indices of S, in ascending order
SubMatrix(G, S) ==
    LET idx == Ascending(S)
    IN [i \in 0..(Len(idx) - 1) |-> G[idx[i + 1]]]

\* C6: encoding an aligned buffer, removing at most k slices and decoding the
\* remaining slices in ascending index order returns the buffer
C6_DecodeAfterLoss ==
    (pin.op = "Decode" /\ pout.err # "pending")
        => (pout.err = "nil" /\ pout.val = pin.buf)

\* C6, its case: a decoding has returned the buffer of two stripes after k >= 1
\* slices were removed, slice 0 among them
C6_Witness_DecodedWithoutSliceZero ==
    /\ pin.op = "Decode"
    /\ pout.err = "nil"
    /\ pin.k >= 1
    /\ Cardinality(pin.keep) = pin.n
    /\ 0 \notin pin.keep
    /\ Len(pin.buf) = 2 * pin.n
    /\ pout.val = pin.buf

\* C7: Rebuild from exactly n slices of an encoding returns without failure
\* all n+k slices, each identical to the slice of the encoding
C7_RebuildFromN ==
    (pin.op = "Rebuild" /\ pout.err # "pending")
        => /\ pout.err = "nil"
           /\ pout.val = EncodeAligned(NewCode(pin.n, pin.k).val, pin.buf).val

\* C9: every n rows of the generator matrix of NewCode(n, k) form an
\* invertible matrix
C9_GeneratorSubmatricesInvertible ==
    (pin.op = "NewCode" /\ pout.err # "pending")
        => /\ pout.err = "nil"
           /\ \A S \in SubsetsOfSize(0..(pin.n + pin.k - 1), pin.n) :
                  Det(SubMatrix(pout.val.mtx, S)) # 0

\* C9, its case: NewCode has returned a code with n >= 2 and k >= 2, whose
\* generator matrix has parity rows that are no rows of the identity matrix
C9_Witness_CodeWithParityRows ==
    /\ pin.op = "NewCode"
    /\ pout.err = "nil"
    /\ pin.n >= 2
    /\ pin.k >= 2
    /\ \A i \in pin.n..(pin.n + pin.k - 1) : \A j \in 0..(pin.n - 1) : pout.val.mtx[i][j] # 0

(***************************************************************************)
(* Claims about the device.                                                *)
(***************************************************************************)
\* request i of hist has returned
Returned(i) == i <= Len(hist) /\ hist[i].ret.err # "pending"

\* the bytes a reader of the whole device gets from the slices of backends
\* 0..n-1 in index order
Logical(bk) ==
    DecodeAligned(code, [s \in 1..code.n |->
                            [Index |-> s - 1, Length |-> BackendLen, Data |-> bk[s - 1]]]).val

\* the smallest multiple of n that is >= off + l
AlignedEnd(off, l, n) == ((off + l + n - 1) \div n) * n

\* C1: after a write of buffer B at offset off, a read of the same range
\* during which at most k backends return errors returns B
C1_ReadBackUnderFailures ==
    (Returned(2) /\ hist[1].ret.err = "nil" /\ Cardinality(hist[2].fail) <= code.k)
        => (hist[2].ret.err = "nil" /\ hist[2].ret.data = hist[1].buf)

\* C2: a read fails with ErrTooFewSlices exactly when fewer than n backend
\* reads succeed; with n or more it returns len(buf) and no error
C2_TooFewSlicesIffFewerThanN ==
    \A i \in 1..Len(hist) :
        (Returned(i) /\ hist[i].kind = "read")
            => LET ok == Cardinality(Backends \ hist[i].fail)
               IN /\ (hist[i].ret.err = "ErrTooFewSlices") <=> (ok < code.n)
                  /\ (ok >= code.n) => (hist[i].ret.err = "nil" /\ hist[i].ret.n = hist[i].l)

\* C2, its case: a read of at least one byte has returned ErrTooFewSlices
\* after exactly n - 1 backends answered and k + 1 returned an error
C2_Witness_OneSliceShort ==
    \E i \in 1..Len(hist) :
        /\ Returned(i)
        /\ hist[i].kind = "read"
        /\ hist[i].l > 0
        /\ Cardinality(Backends \ hist[i].fail) = code.n - 1
        /\ hist[i].ret.err = "ErrTooFewSlices"

\* C3: a successful write returns the number of bytes of its buffer
C3_WriteReturnsLength ==
    \A i \in 1..Len(hist) :
        (Returned(i) /\ hist[i].kind = "write" /\ hist[i].ret.err = "nil")
            => hist[i].ret.n = Len(hist[i].buf)

\* C4: a write to a range that is not stripe-aligned leaves every byte
\* outside the range as it was and makes the bytes of the range those of buf
C4_UnalignedWritePreserves ==
    (Len(hist) = 2 /\ Returned(2) /\ hist[2].kind = "write" /\ hist[2].ret.err = "nil"
     /\ (hist[2].off % code.n # 0 \/ (hist[2].off + hist[2].l) % code.n # 0))
        => LET w == hist[2]
               before == Logical(w.before)
               after == Logical(backends)
           IN \A p \in 0..(Len(after) - 1) :
                  after[p + 1] = IF p >= w.off /\ p < w.off + w.l
                                 THEN w.buf[p - w.off + 1]
                                 ELSE before[p + 1]

\* C5: writing the same buffer twice at the same offset and reading the
\* range returns the buffer
C5_WriteTwiceThenRead ==
    (Returned(3) /\ hist[1].ret.err = "nil" /\ hist[2].ret.err = "nil")
        => (hist[3].ret.err = "nil" /\ hist[3].ret.data = hist[1].buf)

\* C10: a read or write at offset off of l bytes accesses every backend at
\* slice offset start / n for (end - start) / n bytes, start the multiple of n
\* at or below off and end the smallest multiple of n at or above off + l; the
\* bytes after the range in the last stripe are fewer than n
C10_StripeGeometry ==
    /\ rd.pc = "loop"
        => /\ rd.sliceOff = (rd.off - (rd.off % code.n)) \div code.n
           /\ rd.sliceLen = (AlignedEnd(rd.off, rd.l, code.n)
                                - (rd.off - (rd.off % code.n))) \div code.n
    /\ wr.pc # "idle"
        => /\ wr.start = wr.off - (wr.off % code.n)
           /\ wr.length = AlignedEnd(wr.off, Len(wr.buf), code.n) - wr.start
           /\ wr.length - (wr.off % code.n) - Len(wr.buf) < code.n

\* the goroutines aread of the running fan-out whose backend.ReadAt has
\* returned no error
Succeeded == {b \in Backends : rtask[b] = "done" /\ b \notin Cur.fail}

\* the goroutines aread that are at "e <- err"
AtErrSend == {b \in Backends : rtask[b] = "blocked"}

\* C11: after ReadAt has returned, a goroutine aread whose backend.ReadAt has
\* returned does not stay blocked forever: it gets rid of its result and ends
C11_NoReadTaskBlockedForever ==
    (rd.pc = "done" /\ AtErrSend # {}) ~> (AtErrSend = {})

\* C12: once n goroutines aread have sent a slice, denseReadAt leaves its loop
\* and returns although other backends have not answered, and what a request
\* has returned does not change when later results arrive
C12_ReturnsAfterNSlices ==
    /\ (rd.pc = "loop" /\ Cardinality(Succeeded) >= code.n)
           ~> (rd.pc = "done" \/ Cardinality(Succeeded) < code.n)
    /\ [][\A i \in 1..Len(hist) : Returned(i) => (hist'[i].ret = hist[i].ret)]_vars

\* C12, its case: a read of at least one byte has returned its bytes while one
\* backend has not answered and the slice of another, sent after the n-th
\* slice, is left in the channel
C12_Witness_ReturnedBeforeLastAnswer ==
    /\ Len(hist) = 2
    /\ Returned(2)
    /\ hist[2].ret.err = "nil"
    /\ hist[2].l > 0
    /\ \E b \in Backends : rtask[b] = "run"
    /\ rch # << >>

\* C13: a write that gets as far as its fan-out starts one awrite per backend
\* and returns only when every one of them has ended and handed over its
\* outcome, whether a success or an error: every backend that answers holds
\* its slice, every backend that fails is as it was
C13_WriteAwaitsAllBackends ==
    \A i \in 1..Len(hist) :
        (Returned(i) /\ hist[i].kind = "write" /\ hist[i].ret.err = "nil")
            => /\ \A b \in Backends : wtask[b] = "done"
               /\ wch = 0
               /\ \A b \in Backends :
                      backends[b] = IF b \in hist[i].fail THEN hist[i].before[b]
                                    ELSE backendWrite(hist[i].before[b], wr.slices[b + 1].Data,
                                                      wr.start \div GetN(code))

\* C13, its case: a write of at least one byte has returned after the writes
\* to k backends failed and the writes to the other n changed them
C13_Witness_ReturnedAfterFailedWrites ==
    /\ Returned(1)
    /\ hist[1].kind = "write"
    /\ hist[1].ret.err = "nil"
    /\ hist[1].l > 0
    /\ Cardinality(hist[1].fail) = code.k
    /\ \A b \in Backends \ hist[1].fail : backends[b] # hist[1].before[b]

\* C15: a write whose ReadAt for prePadLine or for postPadLine fails returns
\* that error and 0, starts no awrite and leaves every backend as it was; with
\* fewer than n backends answering reads the error is ErrTooFewSlices
C15_FailedReadBackWritesNothing ==
    \A i \in 1..Len(hist) :
        (Returned(i) /\ hist[i].kind = "write")
            => /\ (Cardinality(Backends \ hist[i].fail) < code.n)
                      => (hist[i].ret.err = "ErrTooFewSlices")
               /\ (hist[i].ret.err # "nil")
                      => /\ hist[i].ret.n = 0
                         /\ backends = hist[i].before
                         /\ \A b \in Backends : wtask[b] = "idle"

\* C15, its case: a write of at least one byte has returned ErrTooFewSlices
\* from the ReadAt for postPadLine, after the ReadAt for prePadLine succeeded
C15_Witness_TailReadFailed ==
    /\ Returned(1)
    /\ hist[1].kind = "write"
    /\ hist[1].l > 0
    /\ hist[1].ret.err = "ErrTooFewSlices"
    /\ wr.prePadLine # << >>

\* the indices of pick are n distinct indices
Distinct(pick) == Cardinality({pick[i] : i \in DOMAIN pick}) = Len(pick)

\* C14: mtx_inv returns ErrNoninvertibleMatrix for every square matrix that is
\* singular, and DecodeAligned returns it for n slices whose indices are not n
\* distinct indices
C14_SingularMatrixRejected ==
    /\ (pin.op = "mtx_inv" /\ pout.err # "pending" /\ Det(pin.A) = 0)
           => pout.err = "ErrNoninvertibleMatrix"
    /\ (pin.op = "DecodePick" /\ pout.err # "pending" /\ ~Distinct(pin.pick))
           => pout.err = "ErrNoninvertibleMatrix"

\* C16: DecodeAligned of any n slices of the encoding of an aligned buffer, in
\* any order, returns the buffer
C16_DecodeAnyOrder ==
    (pin.op = "DecodePick" /\ pout.err # "pending" /\ Distinct(pin.pick))
        => (pout.err = "nil" /\ pout.val = pin.buf)

\* C17: two calls of WriteAt at the same time on ranges that have no stripe in
\* common: once both have returned without error, each range holds the buffer
\* of the call that wrote to it
C17_DisjointWritesDoNotInterfere ==
    (Len(hist) = 2 /\ Returned(1) /\ Returned(2)
     /\ hist[1].kind = "write" /\ hist[2].kind = "write"
     /\ hist[1].ret.err = "nil" /\ hist[2].ret.err = "nil"
     /\ StripesOf(hist[1].off, hist[1].l, code.n)
            \cap StripesOf(hist[2].off, hist[2].l, code.n) = {})
        => \A w \in Writers :
               SubSeq(Logical(backends), hist[w].off + 1, hist[w].off + hist[w].l) = hist[w].buf
====
